---- MODULE Spec2Model ----
(***************************************************************************)
(* Model of package errors, struct-based variant (type Error struct, with  *)
(* Raise), src/defs/functions.go lines 462-704.                            *)
(*                                                                         *)
(* A Go string is a sequence of one-character strings, so that             *)
(* concatenation and strings.Cut are computed, not assumed.                *)
(* An error interface value is one of                                      *)
(*   Nil                      the nil interface                            *)
(*   [kind |-> "opaque", ..]  a foreign error: only Error() is available   *)
(*   [kind |-> "Error", ..]   the struct Error of this package             *)
(* The driver program holds two error variables a and b and calls the      *)
(* package's functions on them.  Has and Trace are loops and are modelled  *)
(* one iteration per step.                                                 *)
(***************************************************************************)
EXTENDS Integers, Sequences, FiniteSets, TLC

VARIABLES a, b, pc, err, text, deferred, out, iters, ret

vars == <<a, b, pc, err, text, deferred, out, iters, ret>>

----------------------------------------------------------------------------
(* Bounds *)

\* largest number of struct nodes on a chain the driver builds
MaxDepth == 2
\* longest text of a Join result the driver stores back in a variable
MaxTextLen == 2
\* iterations of a loop that makes no progress that are followed
MaxIters == 2
\* goroutines that share one sentinel
NumGoroutines == 2

----------------------------------------------------------------------------
(* Strings *)

ColonSep == <<":", " ">>
CommaSep == <<",", " ">>

\* texts given to New by the driver: "", "a", "b"
Texts == { <<>>, <<"a">>, <<"b">> }

\* messages of foreign errors: "a", "a: b"
Msgs == { <<"a">>, <<"a", ":", " ", "b">> }

\* strings.Index(s, sep): position (from 1) of the first occurrence, 0 if none
Index(s, sep) ==
    LET at == { i \in 1..(Len(s) - Len(sep) + 1) :
                    SubSeq(s, i, i + Len(sep) - 1) = sep }
    IN  IF at = {} THEN 0 ELSE CHOOSE i \in at : \A j \in at : i <= j

\* Cut that never finds the separator: the whole string is the part before
CutKeepsAll(s, sep) == [before |-> s, after |-> <<>>, found |-> FALSE]

\* strings.Cut(s, sep): before, after, found
Cut(s, sep) ==
    LET i == Index(s, sep)
    IN  IF i = 0
        THEN [before |-> s, after |-> <<>>, found |-> FALSE]
        ELSE [before |-> SubSeq(s, 1, i - 1),
              after  |-> SubSeq(s, i + Len(sep), Len(s)),
              found  |-> TRUE]

----------------------------------------------------------------------------
(* Error values *)

Nil == [kind |-> "nil"]

Opaque(m) == [kind |-> "opaque", msg |-> m]

OpaqueErrs == { Opaque(m) : m \in Msgs }

\* a stack frame as runtime.Caller reports it
Frame(pcv, f, l, name) == [addr |-> pcv, file |-> f, line |-> l, fn |-> name]

\* frames of the package's own functions
FrameNew   == Frame(618, "errors.go", 619, "errors.New")
FrameJoin  == Frame(639, "errors.go", 660, "errors.Join")

\* frames of Raise and of the method raise it calls
FrameRaiseFunc   == Frame(673, "errors.go", 676, "errors.Raise")
FrameRaiseMethod == Frame(522, "errors.go", 524, "errors.Error.raise")

\* the driver's call sites
SiteNew   == Frame(10, "main.go", 10, "main.build")
SiteJoin  == Frame(20, "main.go", 20, "main.collect")

\* call sites of the driver from which errors are built and raised
SiteMain   == Frame(30, "main.go", 30, "main.main")
SiteWorker == Frame(40, "worker.go", 40, "main.worker")

\* the stacks of the driver at a call into the package, innermost frame first
Stacks == { <<SiteMain>>, <<SiteWorker, SiteMain>> }

\* runtime.Caller(skip) on a stack whose first frame is the function calling it
Caller(stack, skip) == stack[skip + 1]

Addr(e) == e.addr
File(e) == e.file
Func(e) == e.fn
Line(e) == e.line
Parent(e) == e.parent
Text(e) == e.text

\* number of struct nodes on the chain of e
RECURSIVE Depth(_)
Depth(e) == IF e.kind = "Error" THEN 1 + Depth(e.parent) ELSE 0

----------------------------------------------------------------------------
(* Methods and functions of the package *)

\* the loop of Error.Error() without the message of a terminal foreign error
RECURSIVE ErrorLoopNoForeign(_, _)
ErrorLoopNoForeign(er, txt) ==
    IF er.kind = "Error"
    THEN IF er.parent = Nil
         THEN txt \o er.text
         ELSE ErrorLoopNoForeign(er.parent, txt \o er.text \o ColonSep)
    ELSE txt

\* the loop of Error.Error(): er is the loop variable err, txt the text so far
RECURSIVE ErrorLoop(_, _)
ErrorLoop(er, txt) ==
    IF er.kind = "Error"
    THEN IF Parent(er) = Nil
         THEN txt \o Text(er)
         ELSE ErrorLoop(Parent(er), txt \o Text(er) \o ColonSep)
    ELSE txt \o er.msg

\* e.Error() on a non-nil error value of either dynamic type
Error(e) == IF e.kind = "Error" THEN ErrorLoop(e, <<>>) ELSE e.msg

\* Is that answers true as soon as either side is nil
IsNilLoose(er, target) ==
    IF er = Nil \/ target = Nil THEN TRUE
    ELSE IF er.kind = "Error" /\ target.kind = "Error"
         THEN Text(er) = Text(target)
    ELSE IF er.kind = "Error"
         THEN Text(er) = Cut(Error(target), ColonSep).before
    ELSE IF target.kind = "Error"
         THEN Cut(Error(er), ColonSep).before = Text(target)
    ELSE Cut(Error(er), ColonSep).before = Cut(Error(target), ColonSep).before

\* Is that cuts a foreign target but compares a foreign err by its whole message
IsOneSidedCut(er, target) ==
    IF er = Nil /\ target = Nil THEN TRUE
    ELSE IF er = Nil \/ target = Nil THEN FALSE
    ELSE IF er.kind = "Error" /\ target.kind = "Error"
         THEN Text(er) = Text(target)
    ELSE IF er.kind = "Error"
         THEN Text(er) = Cut(Error(target), ColonSep).before
    ELSE IF target.kind = "Error"
         THEN Error(er) = Text(target)
    ELSE Error(er) = Cut(Error(target), ColonSep).before

\* Is(err, target)
Is(er, target) ==
    IF er = Nil /\ target = Nil THEN TRUE
    ELSE IF er = Nil \/ target = Nil THEN FALSE
    ELSE IF er.kind = "Error" /\ target.kind = "Error"
         THEN Text(er) = Text(target)
    ELSE IF er.kind = "Error"
         THEN Text(er) = Cut(Error(target), ColonSep).before
    ELSE IF target.kind = "Error"
         THEN Cut(Error(er), ColonSep).before = Text(target)
    ELSE Cut(Error(er), ColonSep).before = Cut(Error(target), ColonSep).before

\* New that does not keep the parent it is given
NewLosesParent(t, er, cs) ==
    LET c == Caller(<<FrameNew>> \o cs, 1)
    IN  [kind |-> "Error", addr |-> c.addr, file |-> c.file, fn |-> c.fn,
         line |-> c.line, parent |-> Nil, text |-> t]

\* New(text, err), called with the caller's stack cs (innermost frame first)
New(t, er, cs) ==
    LET c == Caller(<<FrameNew>> \o cs, 1)
    IN  [kind |-> "Error", addr |-> c.addr, file |-> c.file, fn |-> c.fn,
         line |-> c.line, parent |-> er, text |-> t]

\* the range loop of Join over errs[i..]: the text built and the flag first
RECURSIVE JoinLoop(_, _, _, _)
JoinLoop(errs, i, first, txt) ==
    IF i > Len(errs) THEN txt
    ELSE IF errs[i] = Nil THEN JoinLoop(errs, i + 1, first, txt)
    ELSE LET sep  == IF first THEN <<>> ELSE CommaSep
             part == IF errs[i].kind = "Error" THEN Text(errs[i])
                     ELSE Error(errs[i])
         IN  JoinLoop(errs, i + 1, FALSE, txt \o sep \o part)

\* Join(errs...), called with the caller's stack cs
Join(errs, cs) ==
    LET txt == JoinLoop(errs, 1, TRUE, <<>>)
        c   == Caller(<<FrameJoin>> \o cs, 1)
    IN  IF txt = <<>> THEN Nil
        ELSE [kind |-> "Error", addr |-> c.addr, file |-> c.file, fn |-> c.fn,
              line |-> c.line, parent |-> Nil, text |-> txt]

\* raise that stamps the context but loses the parent
raiseDropsParent(e, st) ==
    LET c == Caller(st, 2)
    IN  [e EXCEPT !.addr = c.addr, !.file = c.file, !.fn = c.fn,
                  !.line = c.line, !.parent = Nil]

\* raise that asks runtime.Caller for one frame up, not two
raiseCallerOne(e, st) ==
    LET c == Caller(st, 1)
    IN  [e EXCEPT !.addr = c.addr, !.file = c.file, !.fn = c.fn,
                  !.line = c.line]

\* e.raise(), entered with stack st (its own frame first): a copy of e with
\* the context of the frame two up
raise(e, st) ==
    LET c == Caller(st, 2)
    IN  [e EXCEPT !.addr = c.addr, !.file = c.file, !.fn = c.fn,
                  !.line = c.line]

\* Raise(err), called with the caller's stack cs
Raise(er, cs) ==
    IF er.kind = "Error"
    THEN raise(er, <<FrameRaiseMethod, FrameRaiseFunc>> \o cs)
    ELSE er

\* the target text of Has taken from the whole message of a foreign target
HasTargetWhole(target) ==
    IF target.kind = "Error" THEN Text(target) ELSE Error(target)

\* Has, before its loop: the text of target that the chain is searched for
HasTarget(target) ==
    IF target.kind = "Error" THEN Text(target)
    ELSE Cut(Error(target), ColonSep).before

\* an iteration of Has that answers true when the chain is exhausted
HasIterExhaustedTrue(er, txt) ==
    IF er.kind = "Error"
    THEN IF Text(er) = txt THEN [done |-> TRUE, val |-> TRUE, err |-> er]
         ELSE IF Parent(er) = Nil
              THEN [done |-> TRUE, val |-> TRUE, err |-> Parent(er)]
              ELSE [done |-> FALSE, val |-> FALSE, err |-> Parent(er)]
    ELSE IF er.kind = "opaque"
    THEN [done |-> TRUE, val |-> Cut(Error(er), ColonSep).before = txt,
          err |-> er]
    ELSE [done |-> FALSE, val |-> FALSE, err |-> er]

\* an iteration of Has that tests the leaf and never moves to the parent
HasIterLeafOnly(er, txt) ==
    IF er.kind = "Error"
    THEN [done |-> TRUE, val |-> Text(er) = txt, err |-> er]
    ELSE IF er.kind = "opaque"
    THEN [done |-> TRUE, val |-> Cut(Error(er), ColonSep).before = txt,
          err |-> er]
    ELSE [done |-> FALSE, val |-> FALSE, err |-> er]

\* one iteration of the loop of Has on loop variable er, searching for txt.
\* A nil er matches neither case of the type switch: the iteration changes
\* nothing and the loop goes round again.
HasIter(er, txt) ==
    IF er.kind = "Error"
    THEN IF Text(er) = txt THEN [done |-> TRUE, val |-> TRUE, err |-> er]
         ELSE IF Parent(er) = Nil
              THEN [done |-> TRUE, val |-> FALSE, err |-> Parent(er)]
              ELSE [done |-> FALSE, val |-> FALSE, err |-> Parent(er)]
    ELSE IF er.kind = "opaque"
    THEN [done |-> TRUE, val |-> Cut(Error(er), ColonSep).before = txt,
          err |-> er]
    ELSE [done |-> FALSE, val |-> FALSE, err |-> er]

\* the lines Trace writes
HeaderLine == <<"Traceback (most recent call first):", "\n">>
LocLine(e) == <<"\t", File(e), ":", Line(e), "\n">>
TextLine(t) == <<"\t", t, "\n">>
FuncLine(e) == <<Func(e), "(...)", "\n">>
NoContextLine == <<"no-context error:", "\n">>

\* an iteration of Trace that registers the text line before the location line
TraceIterTextFirst(er, ds) ==
    IF er.kind = "Error"
    THEN [done |-> Parent(er) = Nil, err |-> Parent(er),
          deferred |-> ds \o <<TextLine(Text(er)), LocLine(er), FuncLine(er)>>]
    ELSE IF er.kind = "opaque"
    THEN [done |-> TRUE, err |-> er,
          deferred |-> ds \o <<TextLine(Error(er)), NoContextLine>>]
    ELSE [done |-> FALSE, err |-> er, deferred |-> ds]

\* an iteration of Trace that writes only the marker for a foreign error
TraceIterForeignNoText(er, ds) ==
    IF er.kind = "Error"
    THEN [done |-> Parent(er) = Nil, err |-> Parent(er),
          deferred |-> ds \o <<LocLine(er), TextLine(Text(er)), FuncLine(er)>>]
    ELSE IF er.kind = "opaque"
    THEN [done |-> TRUE, err |-> er, deferred |-> ds \o <<NoContextLine>>]
    ELSE [done |-> FALSE, err |-> er, deferred |-> ds]

\* one iteration of the loop of Trace on loop variable er; ds is the list of
\* deferred writes in the order they were registered
TraceIter(er, ds) ==
    IF er.kind = "Error"
    THEN [done |-> Parent(er) = Nil, err |-> Parent(er),
          deferred |-> ds \o <<LocLine(er), TextLine(Text(er)), FuncLine(er)>>]
    ELSE IF er.kind = "opaque"
    THEN [done |-> TRUE, err |-> er,
          deferred |-> ds \o <<TextLine(Error(er)), NoContextLine>>]
    ELSE [done |-> FALSE, err |-> er, deferred |-> ds]

\* deferred calls run in the order they were registered
RunDeferredInOrder(ds) == ds

\* the deferred calls run when the function returns, last registered first
RunDeferred(ds) == [i \in 1..Len(ds) |-> ds[Len(ds) + 1 - i]]

----------------------------------------------------------------------------
(* The driver *)

NoRet == [op |-> "none", args |-> <<>>, val |-> Nil]

\* the locals of Has and Trace when neither is running
Idle ==
    /\ pc' = "idle"
    /\ err' = Nil
    /\ text' = <<>>
    /\ deferred' = <<>>
    /\ iters' = 0

Init ==
    /\ a \in {Nil} \cup OpaqueErrs
    /\ b \in {Nil} \cup OpaqueErrs
    /\ pc = "idle"
    /\ err = Nil
    /\ text = <<>>
    /\ deferred = <<>>
    /\ out = <<>>
    /\ iters = 0
    /\ ret = NoRet

\* dst = errors.New(t, p)
CallNew(dst, t, p) ==
    /\ pc = "idle"
    /\ Depth(p) < MaxDepth
    /\ LET v == New(t, p, <<SiteNew>>)
       IN  /\ a' = IF dst = "a" THEN v ELSE a
           /\ b' = IF dst = "b" THEN v ELSE b
           /\ ret' = NoRet
    /\ out' = <<>>
    /\ Idle

\* dst = errors.Join(errs...); dst "_" discards the result
CallJoin(dst, errs) ==
    /\ pc = "idle"
    /\ LET v == Join(errs, <<SiteJoin>>)
       IN  /\ dst # "_" /\ v # Nil => Len(Text(v)) <= MaxTextLen
           /\ a' = IF dst = "a" THEN v ELSE a
           /\ b' = IF dst = "b" THEN v ELSE b
           /\ ret' = [op |-> "Join", args |-> errs, val |-> v]
    /\ out' = <<>>
    /\ Idle

\* errors.Is(a, b)
CallIs ==
    /\ pc = "idle"
    /\ ret' = [op |-> "Is", args |-> <<a, b>>, val |-> Is(a, b)]
    /\ out' = <<>>
    /\ Idle
    /\ UNCHANGED <<a, b>>

\* a.Error()
CallError ==
    /\ pc = "idle"
    /\ a # Nil
    /\ ret' = [op |-> "Error", args |-> <<a>>, val |-> Error(a)]
    /\ out' = <<>>
    /\ Idle
    /\ UNCHANGED <<a, b>>

\* Has whose second nil check answers true
CallHasNilTargetTrue ==
    /\ pc = "idle"
    /\ out' = <<>>
    /\ IF b = Nil
       THEN /\ ret' = [op |-> "Has", args |-> <<a, b>>, val |-> TRUE]
            /\ Idle
       ELSE /\ ret' = NoRet
            /\ pc' = "Has"
            /\ err' = a
            /\ text' = HasTarget(b)
            /\ deferred' = <<>>
            /\ iters' = 0
    /\ UNCHANGED <<a, b>>

\* errors.Has(a, b), up to the loop
CallHas ==
    /\ pc = "idle"
    /\ out' = <<>>
    /\ IF a = Nil /\ b = Nil
       THEN /\ ret' = [op |-> "Has", args |-> <<a, b>>, val |-> TRUE]
            /\ Idle
       ELSE IF b = Nil
       THEN /\ ret' = [op |-> "Has", args |-> <<a, b>>, val |-> FALSE]
            /\ Idle
       ELSE /\ ret' = NoRet
            /\ pc' = "Has"
            /\ err' = a
            /\ text' = HasTarget(b)
            /\ deferred' = <<>>
            /\ iters' = 0
    /\ UNCHANGED <<a, b>>

\* one iteration of the loop of Has
HasStep ==
    /\ pc = "Has"
    /\ LET r == HasIter(err, text)
       IN  IF r.done
           THEN /\ ret' = [op |-> "Has", args |-> <<a, b>>, val |-> r.val]
                /\ Idle
           ELSE /\ iters < MaxDepth + MaxIters
                /\ iters' = iters + 1
                /\ err' = r.err
                /\ UNCHANGED <<pc, text, deferred, ret>>
    /\ UNCHANGED <<a, b, out>>

\* errors.Trace(w, a) on a fresh buffer w, up to the loop
CallTrace ==
    /\ pc = "idle"
    /\ out' = <<HeaderLine>>
    /\ ret' = NoRet
    /\ pc' = "Trace"
    /\ err' = a
    /\ text' = <<>>
    /\ deferred' = <<>>
    /\ iters' = 0
    /\ UNCHANGED <<a, b>>

\* one iteration of the loop of Trace; on return the deferred writes run
TraceStep ==
    /\ pc = "Trace"
    /\ LET r == TraceIter(err, deferred)
       IN  IF r.done
           THEN /\ out' = out \o RunDeferred(r.deferred)
                /\ ret' = [op |-> "Trace", args |-> <<a>>, val |-> Nil]
                /\ Idle
           ELSE /\ iters < MaxDepth + MaxIters
                /\ iters' = iters + 1
                /\ err' = r.err
                /\ deferred' = r.deferred
                /\ UNCHANGED <<pc, text, out, ret>>
    /\ UNCHANGED <<a, b>>

\* the argument lists the driver gives to Join
JoinArgs == { <<>>, <<a>>, <<a, b>>, <<a, b, a>> }

Next ==
    \/ \E dst \in {"a", "b"}, t \in Texts, p \in {Nil, a, b} :
          CallNew(dst, t, p)
    \/ \E dst \in {"a", "b", "_"}, errs \in JoinArgs : CallJoin(dst, errs)
    \/ CallIs
    \/ CallError
    \/ CallHas
    \/ HasStep
    \/ CallTrace
    \/ TraceStep

Spec == Init /\ [][Next]_vars

----------------------------------------------------------------------------
(* A driver that builds, raises and joins one error e, held in b.  The     *)
(* value a call returns is in ret, with the stack cs it was called from.   *)

InitChain ==
    /\ a = Nil
    /\ b \in {Nil} \cup OpaqueErrs
    /\ pc = "idle"
    /\ err = Nil
    /\ text = <<>>
    /\ deferred = <<>>
    /\ out = <<>>
    /\ iters = 0
    /\ ret = NoRet

\* the values the driver can give New as parent: nil, e, or what Raise or
\* Join has just returned
ChainParents ==
    {Nil, b} \cup (IF ret.op \in {"Raise", "Join"} THEN {ret.val} ELSE {})

\* e = errors.New(t, p)
ChainNew(t, p, cs) ==
    /\ Depth(p) < MaxDepth
    /\ b' = New(t, p, cs)
    /\ ret' = [op |-> "New", args |-> <<t, p>>, val |-> New(t, p, cs),
               cs |-> cs]
    /\ UNCHANGED <<a, pc, err, text, deferred, out, iters>>

\* errors.Raise(e)
ChainRaise(cs) ==
    /\ ret' = [op |-> "Raise", args |-> <<b>>, val |-> Raise(b, cs), cs |-> cs]
    /\ UNCHANGED <<a, b, pc, err, text, deferred, out, iters>>

\* errors.Join(e, e)
ChainJoin(cs) ==
    /\ ret' = [op |-> "Join", args |-> <<b, b>>, val |-> Join(<<b, b>>, cs),
               cs |-> cs]
    /\ UNCHANGED <<a, b, pc, err, text, deferred, out, iters>>

\* e.Error()
ChainError ==
    /\ b # Nil
    /\ ret' = [op |-> "Error", args |-> <<b>>, val |-> Error(b), cs |-> <<>>]
    /\ UNCHANGED <<a, b, pc, err, text, deferred, out, iters>>

NextChain ==
    \/ \E t \in Texts, p \in ChainParents, cs \in Stacks : ChainNew(t, p, cs)
    \/ \E cs \in Stacks : ChainRaise(cs)
    \/ \E cs \in Stacks : ChainJoin(cs)
    \/ ChainError

SpecChain == InitChain /\ [][NextChain]_vars

----------------------------------------------------------------------------
(* Goroutines that raise and read one predeclared sentinel concurrently.   *)
(* a is the sentinel they share and b the sentinel as it was declared; pc, *)
(* err and ret hold one value per goroutine: its position, the local copy  *)
(* err of the method raise, and what its last call returned.               *)

Goroutines == 1..NumGoroutines

\* where the sentinel is declared, and where goroutine g raises it
SiteDecl == Frame(5, "io.go", 5, "io.init")
GoSite(g) == Frame(50 + g, "worker.go", 50 + g, "main.worker")
GoStack(g) == <<GoSite(g), SiteMain>>

\* the loop of Has run to its return on a present err
RECURSIVE HasLoop(_, _)
HasLoop(er, txt) ==
    LET r == HasIter(er, txt)
    IN  IF r.done THEN r.val ELSE HasLoop(r.err, txt)

InitConc ==
    /\ a \in { New(t, p, <<SiteDecl>>) : t \in Texts, p \in {Nil} \cup OpaqueErrs }
    /\ b = a
    /\ pc = [g \in Goroutines |-> "idle"]
    /\ err = [g \in Goroutines |-> Nil]
    /\ ret = [g \in Goroutines |-> NoRet]
    /\ text = <<>>
    /\ deferred = <<>>
    /\ out = <<>>
    /\ iters = 0

\* g calls Raise(sentinel): the type switch and the receiver of raise copy
\* the struct out of the shared interface value, and err := e copies it again
GoRaise(g) ==
    /\ pc[g] = "idle"
    /\ a.kind = "Error"
    /\ err' = [err EXCEPT ![g] = a]
    /\ pc' = [pc EXCEPT ![g] = "addr"]
    /\ ret' = [ret EXCEPT ![g] = NoRet]
    /\ UNCHANGED <<a, b, text, deferred, out, iters>>

\* the four assignments of raise, made to the shared sentinel
RaiseWriteShared(g) ==
    /\ pc[g] \in {"addr", "file", "fn", "line"}
    /\ LET c == Caller(<<FrameRaiseMethod, FrameRaiseFunc>> \o GoStack(g), 2)
       IN  \/ /\ pc[g] = "addr"
              /\ a' = [a EXCEPT !.addr = c.addr]
              /\ pc' = [pc EXCEPT ![g] = "file"]
           \/ /\ pc[g] = "file"
              /\ a' = [a EXCEPT !.file = c.file]
              /\ pc' = [pc EXCEPT ![g] = "fn"]
           \/ /\ pc[g] = "fn"
              /\ a' = [a EXCEPT !.fn = c.fn]
              /\ pc' = [pc EXCEPT ![g] = "line"]
           \/ /\ pc[g] = "line"
              /\ a' = [a EXCEPT !.line = c.line]
              /\ pc' = [pc EXCEPT ![g] = "return"]
    /\ UNCHANGED <<b, err, ret, text, deferred, out, iters>>

\* the four assignments of raise, one a step, each to g's local copy err
RaiseWrite(g) ==
    /\ pc[g] \in {"addr", "file", "fn", "line"}
    /\ LET c == Caller(<<FrameRaiseMethod, FrameRaiseFunc>> \o GoStack(g), 2)
       IN  \/ /\ pc[g] = "addr"
              /\ err' = [err EXCEPT ![g].addr = c.addr]
              /\ pc' = [pc EXCEPT ![g] = "file"]
           \/ /\ pc[g] = "file"
              /\ err' = [err EXCEPT ![g].file = c.file]
              /\ pc' = [pc EXCEPT ![g] = "fn"]
           \/ /\ pc[g] = "fn"
              /\ err' = [err EXCEPT ![g].fn = c.fn]
              /\ pc' = [pc EXCEPT ![g] = "line"]
           \/ /\ pc[g] = "line"
              /\ err' = [err EXCEPT ![g].line = c.line]
              /\ pc' = [pc EXCEPT ![g] = "return"]
    /\ UNCHANGED <<a, b, ret, text, deferred, out, iters>>

\* raise returns its copy and Raise returns it to g
GoReturn(g) ==
    /\ pc[g] = "return"
    /\ ret' = [ret EXCEPT ![g] = [op |-> "Raise", args |-> <<a>>, val |-> err[g]]]
    /\ err' = [err EXCEPT ![g] = Nil]
    /\ pc' = [pc EXCEPT ![g] = "idle"]
    /\ UNCHANGED <<a, b, text, deferred, out, iters>>

\* g reads the sentinel: Text(), Error(), Is and Has against itself
GoRead(g, op) ==
    /\ pc[g] = "idle"
    /\ ret' = [ret EXCEPT ![g] =
                 [op |-> op, args |-> <<a>>,
                  val |-> CASE op = "Text"  -> Text(a)
                            [] op = "Error" -> Error(a)
                            [] op = "Is"    -> Is(a, a)
                            [] op = "Has"   -> HasLoop(a, HasTarget(a))]]
    /\ UNCHANGED <<a, b, pc, err, text, deferred, out, iters>>

NextConc ==
    \E g \in Goroutines :
        \/ GoRaise(g)
        \/ RaiseWrite(g)
        \/ GoReturn(g)
        \/ \E op \in {"Text", "Error", "Is", "Has"} : GoRead(g, op)

SpecConc == InitConc /\ [][NextConc]_vars

----------------------------------------------------------------------------
(* Vocabulary of the properties *)

\* number of nodes on the chain of e, a terminal foreign error included
RECURSIVE ChainLen(_)
ChainLen(e) ==
    IF e.kind = "Error" THEN 1 + ChainLen(e.parent)
    ELSE IF e.kind = "opaque" THEN 1 ELSE 0

\* the part of a string before the first ": ", all of it if there is none
RECURSIVE BeforeColon(_)
BeforeColon(s) ==
    IF Len(s) = 0 THEN <<>>
    ELSE IF Len(s) >= 2 /\ s[1] = ":" /\ s[2] = " " THEN <<>>
    ELSE <<s[1]>> \o BeforeColon(Tail(s))

\* leaf segment of a present error
LeafSegment(e) == IF e.kind = "Error" THEN e.text ELSE BeforeColon(e.msg)

\* leaf segments of the nodes of a chain, leaf first
RECURSIVE NodeSegments(_)
NodeSegments(e) ==
    IF e.kind = "Error" THEN <<e.text>> \o NodeSegments(e.parent)
    ELSE IF e.kind = "opaque" THEN <<BeforeColon(e.msg)>> ELSE <<>>

\* the segments of the rendering of a chain, leaf first: the texts of the
\* struct nodes, then the whole message of a terminal foreign error
RECURSIVE RenderSegments(_)
RenderSegments(e) ==
    IF e.kind = "Error" THEN <<e.text>> \o RenderSegments(e.parent)
    ELSE IF e.kind = "opaque" THEN <<e.msg>> ELSE <<>>

\* the strings of ss with sep between neighbours
RECURSIVE Intercalate(_, _)
Intercalate(ss, sep) ==
    IF Len(ss) = 0 THEN <<>>
    ELSE IF Len(ss) = 1 THEN ss[1]
    ELSE ss[1] \o sep \o Intercalate(Tail(ss), sep)

\* the full rendering of a present error, as the specification defines it
Render(e) == Intercalate(RenderSegments(e), ColonSep)

\* y was built as New(t, x) for some text t
IsChildOf(y, x) == y.kind = "Error" /\ y.parent = x

----------------------------------------------------------------------------
(* Properties *)

\* C1: Has(a, b) returns for every pair of optional errors, a absent and b
\* present included: its loop runs at most one iteration per node of a's
\* chain before it returns.
C1_HasTerminates == pc = "Has" => iters <= ChainLen(a)

\* C2: Trace(w, nil) writes the header line, nothing else, and returns: its
\* loop does not go round, and what it has written on return is the header.
C2_TraceNilNoOp ==
    /\ pc = "Trace" /\ a = Nil => iters = 0
    /\ ret.op = "Trace" /\ ret.args = <<Nil>> => out = <<HeaderLine>>

\* C3: the text of Join(x, y) for present x and y is render(x), ", ",
\* render(y), and the text of Join(x) for a present x is render(x).
\* (Stated of the error Join returns; whether it returns one is C4.)
C3_JoinFullRender ==
    ret.op = "Join" /\ ret.val # Nil =>
        /\ Len(ret.args) = 2 /\ ret.args[1] # Nil /\ ret.args[2] # Nil =>
              Error(ret.val) =
                  Render(ret.args[1]) \o CommaSep \o Render(ret.args[2])
        /\ Len(ret.args) = 1 /\ ret.args[1] # Nil =>
              Error(ret.val) = Render(ret.args[1])

\* C4: Join returns nil if and only if every entry is nil.
C4_JoinNilIffAllAbsent ==
    ret.op = "Join" =>
        (ret.val = Nil <=> \A i \in 1..Len(ret.args) : ret.args[i] = Nil)

\* C5 as stated: Has(e, New(t, e)) is false for every present e and every
\* text t that differs from the leaf text of e.
C5_ParentLacksChild ==
    ret.op = "Has" /\ ret.args[1] # Nil /\ IsChildOf(ret.args[2], ret.args[1])
      /\ ret.args[2].text # LeafSegment(ret.args[1])
    => ret.val = FALSE

\* C5 amended: Has(e, New(t, e)) is false for every present e and every text
\* t that differs from the leaf text of every node on the chain of e.
C5_ParentLacksChildText ==
    ret.op = "Has" /\ ret.args[1] # Nil /\ IsChildOf(ret.args[2], ret.args[1])
      /\ (\A i \in 1..ChainLen(ret.args[1]) :
             NodeSegments(ret.args[1])[i] # ret.args[2].text)
    => ret.val = FALSE

C5_Witness ==
    /\ ret.op = "Has" /\ ret.val = FALSE
    /\ ret.args[1].kind = "Error" /\ ret.args[1].parent.kind = "opaque"
    /\ IsChildOf(ret.args[2], ret.args[1])

\* C6: Has(e, e) is true and Has(New(t, e), e) is true for every present e,
\* struct or foreign, and every text t.
C6_HasSelfAndParent ==
    ret.op = "Has" /\ ret.args[2] # Nil
      /\ (ret.args[1] = ret.args[2] \/ IsChildOf(ret.args[1], ret.args[2]))
    => ret.val = TRUE

C6_Witness ==
    /\ ret.op = "Has" /\ ret.val = TRUE
    /\ IsChildOf(ret.args[1], ret.args[2])
    /\ ret.args[2].kind = "opaque"
    /\ ret.args[1].text # LeafSegment(ret.args[2])

\* C7: Error() is the texts of the struct nodes from leaf to root joined by
\* ": ", with the whole message of a terminal foreign error as the last
\* segment and no trailing separator; New("a", New("b", nil)) renders "a: b".
C7_RenderLeafToRoot ==
    ret.op = "Error" =>
        /\ ret.val = Intercalate(RenderSegments(ret.args[1]), ColonSep)
        /\ RenderSegments(ret.args[1]) = << <<"a">>, <<"b">> >> =>
              ret.val = <<"a", ":", " ", "b">>

C7_Witness ==
    /\ ret.op = "Error"
    /\ Depth(ret.args[1]) = 2
    /\ ret.args[1].parent.parent.kind = "opaque"
    /\ Len(ret.val) > Len(ret.args[1].text) + Len(ret.args[1].parent.text)

\* C8: Is(nil, nil) is true, and Is is false when exactly one side is nil.
C8_IsAbsent ==
    ret.op = "Is" =>
        /\ ret.args[1] = Nil /\ ret.args[2] = Nil => ret.val = TRUE
        /\ (ret.args[1] = Nil) # (ret.args[2] = Nil) => ret.val = FALSE

C8_Witness ==
    /\ ret.op = "Is" /\ ret.val = FALSE
    /\ ret.args[1] = Nil /\ ret.args[2].kind = "Error"

\* C9: for two present errors Is is true exactly when their leaf segments
\* are equal; parents, contexts and depth play no part.
C9_IsLeafSegments ==
    ret.op = "Is" /\ ret.args[1] # Nil /\ ret.args[2] # Nil =>
        ret.val = (LeafSegment(ret.args[1]) = LeafSegment(ret.args[2]))

C9_Witness ==
    /\ ret.op = "Is" /\ ret.val = TRUE
    /\ ret.args[1].kind = "Error" /\ ret.args[2].kind = "opaque"
    /\ Depth(ret.args[1]) = 2
    /\ ret.args[2].msg # ret.args[1].text

\* C10: Is(e, e) is true for every optional e, and Is(x, y) = Is(y, x).
C10_IsReflexiveSymmetric ==
    ret.op = "Is" =>
        /\ ret.val = Is(ret.args[2], ret.args[1])
        /\ ret.args[1] = ret.args[2] => ret.val = TRUE

C10_Witness ==
    /\ ret.op = "Is" /\ ret.val = TRUE
    /\ ret.args[1].kind = "opaque" /\ ret.args[2].kind = "Error"
    /\ ret.args[1].msg # ret.args[2].text

\* C11: Has(nil, nil) is true, and Has(x, nil) is false for a present x.
C11_HasAbsent ==
    ret.op = "Has" =>
        /\ ret.args[1] = Nil /\ ret.args[2] = Nil => ret.val = TRUE
        /\ ret.args[1] # Nil /\ ret.args[2] = Nil => ret.val = FALSE

C11_Witness ==
    /\ ret.op = "Has" /\ ret.val = FALSE
    /\ ret.args[2] = Nil /\ ret.args[1].kind = "Error"
    /\ Depth(ret.args[1]) = 2

\* C12: for present x and y, Has(x, y) is true exactly when some node of the
\* chain of x (a struct node by its text, a terminal foreign error by its
\* message before the first ": ") has the leaf segment of y.
C12_HasSomeNode ==
    ret.op = "Has" /\ ret.args[1] # Nil /\ ret.args[2] # Nil =>
        ret.val = (\E i \in 1..ChainLen(ret.args[1]) :
                      NodeSegments(ret.args[1])[i] = LeafSegment(ret.args[2]))

C12_Witness ==
    /\ ret.op = "Has" /\ ret.val = TRUE
    /\ ret.args[2].kind = "opaque" /\ Len(ret.args[2].msg) > 1
    /\ Depth(ret.args[1]) = 2
    /\ ret.args[1].text # LeafSegment(ret.args[2])
    /\ ret.args[1].parent.text = LeafSegment(ret.args[2])

----------------------------------------------------------------------------
(* Vocabulary of the properties of Trace *)

\* the nodes of a chain, leaf first, a terminal foreign error included
RECURSIVE Nodes(_)
Nodes(e) ==
    IF e.kind = "Error" THEN <<e>> \o Nodes(e.parent)
    ELSE IF e.kind = "opaque" THEN <<e>> ELSE <<>>

\* the nodes of a chain, root first
NodesRootFirst(e) ==
    LET ns == Nodes(e) IN [i \in 1..Len(ns) |-> ns[Len(ns) + 1 - i]]

\* the terminal foreign error of a chain, Nil if it has none
RECURSIVE Terminal(_)
Terminal(e) == IF e.kind = "Error" THEN Terminal(e.parent) ELSE e

\* the lines of the block of a node, in no order
BlockLineSet(n) ==
    IF n.kind = "Error"
    THEN { <<"\t", n.file, ":", n.line, "\n">>, <<"\t", n.text, "\n">>,
           <<n.fn, "(...)", "\n">> }
    ELSE { <<"no-context error:", "\n">>, <<"\t", n.msg, "\n">> }

BlockSize(n) == IF n.kind = "Error" THEN 3 ELSE 2

\* lines is the blocks of the nodes ns, one after the other in the order of ns
RECURSIVE IsBlocksOf(_, _)
IsBlocksOf(lines, ns) ==
    IF Len(ns) = 0 THEN Len(lines) = 0
    ELSE LET k == BlockSize(ns[1])
         IN  /\ Len(lines) >= k
             /\ { lines[j] : j \in 1..k } = BlockLineSet(ns[1])
             /\ IsBlocksOf(SubSeq(lines, k + 1, Len(lines)), Tail(ns))

\* the lines of out written for the j-th struct node counted from the root
StructBlock(e, j) ==
    LET off == 1 + (IF Terminal(e) = Nil THEN 0 ELSE 2) + 3 * (j - 1)
    IN  SubSeq(out, off + 1, off + 3)

\* the j-th struct node of the chain of e counted from the root
StructNode(e, j) == Nodes(e)[Depth(e) + 1 - j]

----------------------------------------------------------------------------
(* Properties of Trace *)

\* C15: the header is written before every block, and after it the blocks of
\* the chain nodes come root first and leaf last.
C15_TraceRootFirst ==
    /\ pc = "Trace" => out = <<HeaderLine>>
    /\ ret.op = "Trace" =>
          /\ out[1] = HeaderLine
          /\ IsBlocksOf(Tail(out), NodesRootFirst(ret.args[1]))

C15_Witness ==
    /\ ret.op = "Trace"
    /\ Depth(ret.args[1]) = 2
    /\ Terminal(ret.args[1]) # Nil
    /\ ret.args[1].text # ret.args[1].parent.text

\* C16 as stated: every struct node has one block of three lines: the
\* file:line line, then the text line, then the function marker line.
C16_BlockLocTextFunc ==
    ret.op = "Trace" =>
        /\ Len(out) = 1 + 3 * Depth(ret.args[1])
                        + (IF Terminal(ret.args[1]) = Nil THEN 0 ELSE 2)
        /\ \A j \in 1..Depth(ret.args[1]) :
              LET n == StructNode(ret.args[1], j)
              IN  StructBlock(ret.args[1], j) =
                    << <<"\t", n.file, ":", n.line, "\n">>,
                       <<"\t", n.text, "\n">>,
                       <<n.fn, "(...)", "\n">> >>

\* C16 amended: every struct node has one block of three lines: the function
\* marker line, then the text line, then the file:line line.
C16_BlockFuncTextLoc ==
    ret.op = "Trace" =>
        /\ Len(out) = 1 + 3 * Depth(ret.args[1])
                        + (IF Terminal(ret.args[1]) = Nil THEN 0 ELSE 2)
        /\ \A j \in 1..Depth(ret.args[1]) :
              LET n == StructNode(ret.args[1], j)
              IN  StructBlock(ret.args[1], j) =
                    << <<n.fn, "(...)", "\n">>,
                       <<"\t", n.text, "\n">>,
                       <<"\t", n.file, ":", n.line, "\n">> >>

C16_Witness ==
    /\ ret.op = "Trace"
    /\ Depth(ret.args[1]) = 2
    /\ ret.args[1].text # ret.args[1].parent.text
    /\ ret.args[1].fn # ret.args[1].parent.fn

\* C17: for a foreign error, alone or at the end of a chain, Trace writes
\* exactly one no-context block, the marker line and the tab-indented
\* message, with no file:line or function line for that node, and goes no
\* further; without a foreign error it writes no such block.
C17_TraceForeignBlock ==
    ret.op = "Trace" =>
        LET t == Terminal(ret.args[1])
            marks == { i \in 1..Len(out) : out[i] = <<"no-context error:", "\n">> }
        IN  IF t = Nil THEN marks = {}
            ELSE /\ marks = {2}
                 /\ Len(out) = 3 + 3 * Depth(ret.args[1])
                 /\ out[3] = <<"\t", t.msg, "\n">>

C17_Witness ==
    /\ ret.op = "Trace"
    /\ Depth(ret.args[1]) = 1
    /\ Terminal(ret.args[1]) # Nil
    /\ Len(Terminal(ret.args[1]).msg) > 1

----------------------------------------------------------------------------
(* Properties of Join *)

\* what the present entries of errs contribute to the text of Join, in input
\* order: the text of a struct entry, the message of a foreign one
RECURSIVE Contributions(_)
Contributions(errs) ==
    IF Len(errs) = 0 THEN <<>>
    ELSE IF errs[1].kind = "Error"
         THEN <<errs[1].text>> \o Contributions(Tail(errs))
    ELSE IF errs[1].kind = "opaque"
         THEN <<errs[1].msg>> \o Contributions(Tail(errs))
    ELSE Contributions(Tail(errs))

\* C18: with k >= 1 present entries Join returns an error whose text is the
\* contributions of the present entries in input order with ", " between
\* neighbours: k-1 separators, nothing for an absent entry, none at the end.
C18_JoinSeparators ==
    ret.op = "Join" /\ Len(Contributions(ret.args)) >= 1 =>
        IF ret.val = Nil THEN FALSE
        ELSE ret.val.text = Intercalate(Contributions(ret.args), CommaSep)

----------------------------------------------------------------------------
(* Properties of Raise, New and the call sites, under SpecChain *)

\* the context fields of a struct Error
Context(e) == [addr |-> e.addr, file |-> e.file, line |-> e.line, fn |-> e.fn]

\* e is a list of at most n struct nodes that ends in nil or a foreign error
RECURSIVE IsChain(_, _)
IsChain(e, n) ==
    \/ e.kind \in {"nil", "opaque"}
    \/ /\ e.kind = "Error"
       /\ n > 0
       /\ IsChain(e.parent, n - 1)

\* C13: Raise(e) on a struct e leaves e as it was and returns a value with
\* the text and the parent of e, so that e.Error() is what it was; only the
\* context of the value returned may differ.
C13_RaiseLeavesError ==
    ret.op = "Raise" /\ ret.args[1].kind = "Error" =>
        /\ b = ret.args[1]
        /\ ret.val.kind = "Error"
        /\ ret.val.text = b.text
        /\ ret.val.parent = b.parent
        /\ Error(b) = Render(ret.args[1])
        /\ Error(ret.val) = Error(b)

C13_Witness ==
    /\ ret.op = "Raise" /\ ret.args[1].kind = "Error"
    /\ Depth(b) = 2
    /\ Context(ret.val) # Context(b)

\* C19: New(t, p) on a chain p of depth N returns a chain of depth N+1 with
\* text t and parent p; every chain built by New, Raise and Join is a finite
\* list ending in nil or a foreign error, and Error() returns on it.
C19_ChainGrowsByOne ==
    /\ IsChain(b, MaxDepth)
    /\ ret.op \in {"New", "Raise", "Join"} => IsChain(ret.val, MaxDepth)
    /\ ret.op = "New" =>
          /\ ret.val.text = ret.args[1]
          /\ ret.val.parent = ret.args[2]
          /\ Depth(ret.val) = Depth(ret.args[2]) + 1
    /\ ret.op = "Error" => ret.val = Render(ret.args[1])

C19_Witness ==
    /\ ret.op = "New"
    /\ Depth(ret.val) = 2
    /\ ret.args[2].kind = "Error"
    /\ Context(ret.args[2]) # Context(ret.val)
    /\ Terminal(ret.val) # Nil

\* C20: New and Join record the call site of their immediate caller, and
\* Raise(e) records the call site of the function that called Raise, never a
\* frame of Raise or of its method raise.
C20_CallSiteRecorded ==
    ret.op \in {"New", "Join", "Raise"} /\ ret.val.kind = "Error" =>
        /\ Context(ret.val) = ret.cs[1]
        /\ Context(ret.val) \notin
              {FrameRaiseFunc, FrameRaiseMethod, FrameNew, FrameJoin}

C20_Witness ==
    /\ ret.op = "Raise" /\ ret.val.kind = "Error"
    /\ Len(ret.cs) = 2
    /\ Context(ret.args[1]) # Context(ret.val)

----------------------------------------------------------------------------
(* Properties of concurrent use of a sentinel, under SpecConc *)

\* C14: under every interleaving of goroutines that raise and read one
\* sentinel, the sentinel keeps the text, parent and context it was declared
\* with, every read sees them, and every Raise returns the sentinel's text
\* and parent with the context of the goroutine that called it.
C14_SentinelUnshared ==
    /\ a = b
    /\ \A g \in Goroutines :
          /\ ret[g].op = "Raise" =>
                /\ Context(ret[g].val) = GoSite(g)
                /\ ret[g].val.text = b.text
                /\ ret[g].val.parent = b.parent
          /\ ret[g].op = "Text" => ret[g].val = b.text
          /\ ret[g].op = "Error" => ret[g].val = Render(b)
          /\ ret[g].op \in {"Is", "Has"} => ret[g].val = TRUE

C14_Witness ==
    /\ ret[1].op = "Raise"
    /\ pc[2] = "fn"
    /\ Context(ret[1].val) # Context(err[2])
    /\ Context(err[2]) # Context(a)

----------------------------------------------------------------------------
(* Is and Has together, under Spec *)

\* C21: Is is at least as strong as Has: whenever Is(x, y) is true for
\* optional errors x and y, Has(x, y) returns, without going round its loop
\* a second time, and returns true.
C21_IsImpliesHas ==
    /\ pc = "Has" /\ Is(a, b) => iters = 0
    /\ ret.op = "Has" /\ Is(ret.args[1], ret.args[2]) => ret.val = TRUE

C21_Witness ==
    /\ ret.op = "Has" /\ ret.val = TRUE
    /\ Is(ret.args[1], ret.args[2])
    /\ ret.args[1].kind = "Error" /\ Depth(ret.args[1]) = 2
    /\ ret.args[2].kind = "opaque" /\ Len(ret.args[2].msg) > 1

====
